---- MODULE Spec2Model ----
(***************************************************************************)
(* Model of autoregressive/models/generatearcon.py: the logits filter      *)
(* (top_k_top_p_filtering), the sampler (sample), the two step functions   *)
(* (prefill, decode_one_token), the decode loop (decode_n_tokens) and the  *)
(* driver (generate).                                                      *)
(*                                                                         *)
(* Numbers.  A logit is an integer, read as a multiple of ln 2, so that    *)
(* exp(logit) is the exact integer power 2^logit; -Inf is NegInf and has   *)
(* weight 0.  softmax is invariant under a shift of the row, so a row's    *)
(* probabilities are Weight(row, i) / Total(row) with the weights taken    *)
(* relative to the smallest finite logit of the row.  A probability and a  *)
(* threshold are exact fractions <<numerator, denominator>>; floating      *)
(* point rounding is not modelled.                                         *)
(***************************************************************************)
EXTENDS Integers, Sequences, FiniteSets, TLC

\* ------------------------------------------------------------------ bounds
Vocab == 3
MaxLogit == 1
MaxKeep == 2
MaxMapLen == 2
MaxBatch == 2
MaxNew == 4
MaxCond == 2
MaxInterval == 1

\* ------------------------------------------------------------- value sets
Ids == 0 .. (Vocab - 1)
NegInf == -1000000
Rows == [Ids -> 0 .. MaxLogit]
\* top_p values <<numerator, denominator>>, from below 0 up to the disabling 1.0
TopPs == {<<-1, 4>>, <<0, 1>>, <<1, 4>>, <<1, 3>>, <<1, 2>>, <<3, 4>>, <<1, 1>>}
TopKs == 0 .. (Vocab + 1)
\* rows with at most one raised logit
PeakedRows == {[i \in Ids |-> IF i = peak THEN h ELSE 0] : peak \in Ids, h \in 0 .. 1}
\* sampling_kwargs: the defaults, greedy, and a filtered setting
DefaultKw == [temperature |-> <<1, 1>>, top_k |-> 0, top_p |-> <<1, 1>>,
              sample_logits |-> TRUE]
SamplingKwargs == {DefaultKw,
                   [DefaultKw EXCEPT !.sample_logits = FALSE],
                   [DefaultKw EXCEPT !.top_k = 2, !.top_p = <<1, 2>>,
                                     !.temperature = <<1, 2>>]}
\* dicts of at most MaxMapLen items over the vocabulary, and no dict
RECURSIVE MapsOfLen(_)
MapsOfLen(n) ==
    IF n = 0 THEN {<<>>}
    ELSE {Append(m, kv) : <<m, kv>> \in
            {x \in MapsOfLen(n - 1) \X (Ids \X Ids) :
                \A a \in DOMAIN x[1] : x[1][a][1] # x[2][1]}}
NoMapping == [is_none |-> TRUE, items |-> <<>>]
IndexMappings ==
    {NoMapping} \cup
    {[is_none |-> FALSE, items |-> m] : m \in UNION {MapsOfLen(n) : n \in 0 .. MaxMapLen}}

Min2(a, b) == IF a < b THEN a ELSE b
Max2(a, b) == IF a > b THEN a ELSE b

\* ------------------------------------------------------------ softmax
Finite(row) == {i \in DOMAIN row : row[i] # NegInf}

MinFinite(row) == CHOOSE m \in {row[i] : i \in Finite(row)} :
                     \A i \in Finite(row) : m <= row[i]

\* exp(row[i] - c) for every i, with c the smallest finite logit of the row
Weights(row) == LET m == MinFinite(row)
                IN  [i \in DOMAIN row |-> IF row[i] = NegInf THEN 0 ELSE 2 ^ (row[i] - m)]

RECURSIVE SumOver(_, _)
SumOver(w, S) == IF S = {} THEN 0
                 ELSE LET i == CHOOSE x \in S : TRUE
                      IN  w[i] + SumOver(w, S \ {i})

\* the summed weight of the entries S of the row, and of the whole row
SumW(row, S) == SumOver(Weights(row), S)
Total(row) == SumW(row, DOMAIN row)

\* F.softmax(logits, dim=-1)[i] as the fraction <<numerator, denominator>>
Softmax(row, i) == LET w == Weights(row) IN <<w[i], SumOver(w, DOMAIN row)>>

\* ------------------------------------------------------------ sorting
\* torch.sort(logits, descending=True)[1]: the sequences of indices it may
\* return, largest logit first; the order of equal logits is not fixed
RECURSIVE SortAscending(_, _)
SortAscending(row, S) ==
    IF S = {} THEN {<<>>}
    ELSE UNION {{<<i>> \o t : t \in SortAscending(row, S \ {i})} :
                  i \in {x \in S : \A y \in S : row[y] >= row[x]}}

RECURSIVE SortDescending(_, _)
SortDescending(row, S) ==
    IF S = {} THEN {<<>>}
    ELSE UNION {{<<i>> \o t : t \in SortDescending(row, S \ {i})} :
                  i \in {x \in S : \A y \in S : row[y] <= row[x]}}

SortPermsAscending(row) == SortAscending(row, Ids)

SortPerms(row) == SortDescending(row, Ids)

\* torch.topk(logits, k)[0][..., -1]: the k-th largest value of the row
KthLargest(row, k) == LET perm == CHOOSE p \in SortPerms(row) : TRUE
                      IN  row[perm[k]]

\* ------------------------------------------------------------ the filter
\* lines 27-31: the top-k stage
TopKStageStrict(logits, top_k, min_tokens_to_keep) ==
    IF top_k > 0
    THEN LET k == Min2(Max2(top_k, min_tokens_to_keep), Vocab)
             kth == KthLargest(logits, k)
         IN  [i \in Ids |-> IF logits[i] <= kth THEN NegInf ELSE logits[i]]
    ELSE logits

TopKStage(logits, top_k, min_tokens_to_keep) ==
    IF top_k > 0
    THEN LET k == Min2(Max2(top_k, min_tokens_to_keep), Vocab)
             kth == KthLargest(logits, k)
         IN  [i \in Ids |-> IF logits[i] < kth THEN NegInf ELSE logits[i]]
    ELSE logits

\* lines 35-38: cumulative_probs > top_p at the sorted positions 1..Vocab
\* (position j of the code is position j + 1 here)
AboveTopP(row, perm, top_p) ==
    LET w == Weights(row)
        total == SumOver(w, Ids)
    IN  [j \in 1 .. Vocab |->
           SumOver(w, {perm[a] : a \in 1 .. j}) * top_p[2] > top_p[1] * total]

\* lines 38-44: sorted_indices_to_remove after the min_tokens_to_keep reset and
\* the shift to the right
SortedRemoveNoShift(row, perm, top_p, min_tokens_to_keep) ==
    LET above == AboveTopP(row, perm, top_p)
    IN  [j \in 1 .. Vocab |->
           IF min_tokens_to_keep > 1 /\ j <= min_tokens_to_keep
           THEN FALSE ELSE above[j]]

SortedRemove(row, perm, top_p, min_tokens_to_keep) ==
    LET above == AboveTopP(row, perm, top_p)
        reset == [j \in 1 .. Vocab |->
                    IF min_tokens_to_keep > 1 /\ j <= min_tokens_to_keep
                    THEN FALSE ELSE above[j]]
    IN  [j \in 1 .. Vocab |-> IF j = 1 THEN FALSE ELSE reset[j - 1]]

\* lines 33-48: the top-p stage under the sort order perm
TopPStage(logits, top_p, min_tokens_to_keep, perm) ==
    IF top_p[1] < top_p[2]
    THEN LET rem == SortedRemove(logits, perm, top_p, min_tokens_to_keep)
             \* scatter(1, sorted_indices, sorted_indices_to_remove)
             indices_to_remove == [i \in Ids |->
                                     \E j \in 1 .. Vocab : perm[j] = i /\ rem[j]]
         IN  [i \in Ids |-> IF indices_to_remove[i] THEN NegInf ELSE logits[i]]
    ELSE logits

\* top_k_top_p_filtering: every row it may return (one per sort order)
top_k_top_p_filtering(logits, top_k, top_p, min_tokens_to_keep) ==
    LET afterK == TopKStage(logits, top_k, min_tokens_to_keep)
    IN  IF top_p[1] < top_p[2]
        THEN {TopPStage(afterK, top_p, min_tokens_to_keep, perm) :
                perm \in SortPerms(afterK)}
        ELSE {afterK}

\* ------------------------------------------------------------ the sampler
\* An index_mapping is the record [is_none, items]: None, or a dict given as
\* the sequence of its <<key, value>> items in insertion order (distinct keys).
HasKey(index_mapping, k) ==
    \E n \in DOMAIN index_mapping.items : index_mapping.items[n][1] = k

Lookup(index_mapping, k) ==
    LET items == index_mapping.items
    IN  items[CHOOSE n \in DOMAIN items : items[n][1] = k][2]

\* lines 73-76: <<key>> for the first item, from item n on, whose value is
\* selected_idx; <<>> when the loop ends without a break
RECURSIVE ReverseScanLast(_, _, _)
ReverseScanLast(items, selected_idx, n) ==
    IF n > Len(items) THEN <<>>
    ELSE LET rest == ReverseScanLast(items, selected_idx, n + 1)
         IN  IF rest # <<>> THEN rest
             ELSE IF items[n][2] = selected_idx THEN <<items[n][1]>> ELSE <<>>

RECURSIVE ReverseScan(_, _, _)
ReverseScan(items, selected_idx, n) ==
    IF n > Len(items) THEN <<>>
    ELSE IF items[n][2] = selected_idx THEN <<items[n][1]>>
    ELSE ReverseScan(items, selected_idx, n + 1)

Zero == <<0, 1>>

\* lines 63-76: paired_confidence[b, 0] for the row whose probabilities are the
\* softmax of row and whose sampled id is selected_idx
PairedConfidence(row, selected_idx, index_mapping) ==
    IF index_mapping.is_none THEN Zero
    ELSE IF HasKey(index_mapping, selected_idx)
         THEN Softmax(row, Lookup(index_mapping, selected_idx))
         ELSE LET key == ReverseScan(index_mapping.items, selected_idx, 1)
              IN  IF key = <<>> THEN Zero ELSE Softmax(row, key[1])

\* line 53: logits / max(temperature, 1e-5); the temperatures drawn divide the
\* logits exactly
FloorTemperature(t) == IF t[1] * 100000 < t[2] THEN <<1, 100000>> ELSE t
DivTemperature(row, temperature) ==
    LET t == FloorTemperature(temperature)
    IN  [i \in Ids |-> (row[i] * t[2]) \div t[1]]

\* lines 54-55: the rows the optional filter may leave
Filtered(row, kw) ==
    IF kw.top_k > 0 \/ kw.top_p[1] < kw.top_p[2]
    THEN top_k_top_p_filtering(row, kw.top_k, kw.top_p, 1)
    ELSE {row}

\* lines 57-61: the ids torch.multinomial may draw (any id of positive
\* probability), or the ids torch.topk(probs, k=1) may return (an id of the
\* largest probability)
Drawn(row, sample_logits) ==
    IF sample_logits
    THEN {i \in Ids : row[i] # NegInf}
    ELSE {i \in Ids : \A j \in Ids : row[j] <= row[i]}

\* sample, for one batch row: logits is the row's logits at every position;
\* the results are [probs, idx, con_pairs] with probs the filtered logits row
\* whose softmax is the distribution sampled from
SampleRow(logits, kw, index_mapping) ==
    LET last == DivTemperature(logits[Len(logits)], kw.temperature)
    IN  {[probs |-> row, idx |-> i,
          con_pairs |-> <<Softmax(row, i), PairedConfidence(row, i, index_mapping)>>] :
            <<row, i>> \in {ri \in Filtered(last, kw) \X Ids :
                              ri[2] \in Drawn(ri[1], kw.sample_logits)}}

\* sample, for a batch: the loop of lines 67-76 over the rows 1..n, one result
\* per row
RECURSIVE SampleRows(_, _, _, _)
SampleRows(logits, kw, index_mapping, n) ==
    IF n = 0 THEN {<<>>}
    ELSE LET head == SampleRows(logits, kw, index_mapping, n - 1)
             last == SampleRow(logits[n], kw, index_mapping)
         IN  {Append(h[1], h[2]) : h \in head \X last}

Sample(logits, kw, index_mapping) ==
    SampleRows(logits, kw, index_mapping, Len(logits))

\* ------------------------------------------------------------ the model
\* The predictor is an external collaborator.  It is drawn as a deterministic
\* function, picked by seed, from what it is called with to logits of shape
\* (rows, positions, vocabulary): row r of the batch (its conditioning or its
\* cache), the token fed to it (0 when tokens is None) and the position.
ModelSeeds == {0, 1}
ForwardRow(seed, r, tok, pos) ==
    [i \in Ids |-> IF i = (seed + r + tok + pos) % Vocab THEN 1 ELSE 0]

\* model(tokens, cond_idx, input_pos)[0]; tokens is <<>> for None, else one
\* sequence of token ids per row
ModelForward(seed, rows, tokens, input_pos) ==
    [r \in 1 .. rows |->
        [p \in 1 .. Len(input_pos) |->
            ForwardRow(seed, r, IF tokens = <<>> THEN 0 ELSE tokens[r][1], input_pos[p])]]

\* ------------------------------------------------------------ guidance
CfgScales == {1, 2}

\* torch.split(t, split_size, dim=0) on n rows: the chunks as <<first, last>>
SplitChunks(n, split_size) ==
    [c \in 1 .. ((n + split_size - 1) \div split_size) |->
        <<(c - 1) * split_size + 1, Min2(c * split_size, n)>>]

\* uncond_logits + (cond_logits - uncond_logits) * cfg_scale, for one row
Blend(cond_logits, uncond_logits, cfg_scale) ==
    [p \in DOMAIN cond_logits |->
        [i \in Ids |-> uncond_logits[p][i]
                         + (cond_logits[p][i] - uncond_logits[p][i]) * cfg_scale]]

\* lines 95-100 and 112-120: the guidance step on the logits of the model;
\* unpacking torch.split's result into two names raises unless it has exactly
\* two chunks
Guidance(logits_combined, cfg_scale, cfg_flag) ==
    LET n == Len(logits_combined)
    IN  IF n >= 2
        THEN LET chunks == SplitChunks(n, n \div 2)
             IN  IF Len(chunks) # 2
                 THEN [status |-> "raised", warned |-> FALSE, logits |-> <<>>]
                 ELSE [status |-> "ok", warned |-> FALSE,
                       logits |->
                         [b \in 1 .. (n \div 2) |->
                            IF cfg_flag
                            THEN Blend(logits_combined[chunks[1][1] + b - 1],
                                       logits_combined[chunks[2][1] + b - 1],
                                       cfg_scale)
                            ELSE logits_combined[chunks[1][1] + b - 1]]]
        ELSE [status |-> "ok", warned |-> TRUE, logits |-> logits_combined]

Unguided(logits) == [status |-> "ok", warned |-> FALSE, logits |-> logits]

\* ------------------------------------------------------------ the steps
\* prefill: cond_rows is the batch of cond_idx.  The result holds the logits
\* handed to sample and the results sample may return (none when it raised).
Prefill(seed, cond_rows, input_pos, cfg_scale, index_mapping, kw) ==
    LET logits == ModelForward(seed, cond_rows, <<>>, input_pos)
        g == IF cfg_scale > 1 THEN Guidance(logits, cfg_scale, TRUE)
             ELSE Unguided(logits)
    IN  [status |-> g.status, warned |-> g.warned, logits |-> g.logits,
         outs |-> IF g.status = "ok" THEN Sample(g.logits, kw, index_mapping) ELSE {}]

\* the tokens the model is called with at line 110 or line 122
DecodeTokens(x, cfg_scale) == IF cfg_scale > 1 THEN x \o x ELSE x

\* decode_one_token: x holds one sequence of token ids per row
decode_one_token(seed, x, input_pos, cfg_scale, cfg_flag, index_mapping, kw) ==
    IF Len(input_pos) # 1
    THEN [status |-> "raised", warned |-> FALSE, logits |-> <<>>, outs |-> {}]
    ELSE LET tokens == DecodeTokens(x, cfg_scale)
             logits == ModelForward(seed, Len(tokens), tokens, input_pos)
             g == IF cfg_scale > 1 THEN Guidance(logits, cfg_scale, cfg_flag)
                  ELSE Unguided(logits)
         IN  [status |-> g.status, warned |-> g.warned, logits |-> g.logits,
              outs |-> IF g.status = "ok" THEN Sample(g.logits, kw, index_mapping)
                       ELSE {}]

\* ------------------------------------------------------------ the driver
\* torch.empty: an entry of the sequence buffer that was never written
Uninit == -1

\* tensor[index] = value with basic indexing: value is viewed without its
\* leading dimensions of size 1 and expanded to the shape of tensor[index]; the
\* assignment raises when it has more dimensions than the target or a
\* dimension that is neither 1 nor the target's
RECURSIVE StripOnes(_)
StripOnes(shape) ==
    IF shape # <<>> /\ shape[1] = 1 THEN StripOnes(Tail(shape)) ELSE shape

SetItemFits(value_shape, target_shape) ==
    \/ value_shape = target_shape
    \/ LET v == StripOnes(value_shape)
           d == Len(target_shape) - Len(v)
       IN  /\ d >= 0
           /\ \A n \in 1 .. Len(v) : v[n] = 1 \/ v[n] = target_shape[n + d]

\* line 172
MaxBatchSizeCfgPlain(max_batch_size, cfg_scale) == max_batch_size

MaxBatchSizeCfg(max_batch_size, cfg_scale) ==
    IF cfg_scale > 1 THEN max_batch_size * 2 ELSE max_batch_size

\* line 134: the guidance flag is switched off before decode step i
GuidanceEndsEarly(cfg_interval, i) == cfg_interval > -1 /\ i >= cfg_interval

GuidanceEnds(cfg_interval, i) == cfg_interval > -1 /\ i > cfg_interval

\* line 139: input_pos += 1
AdvancePosTwice(input_pos) == [n \in DOMAIN input_pos |-> input_pos[n] + 2]

AdvancePos(input_pos) == [n \in DOMAIN input_pos |-> input_pos[n] + 1]

\* torch.arange(0, T)
Arange(T) == [n \in 1 .. T |-> n - 1]

\* line 199: the buffer index of the confidence of decode step i
ConfIndexOff(T, i) == T + i

ConfIndex(T, i) == T + i + 1

\* line 142: cur_token = next_token.view(-1, 1)
ViewAsColumn(next_token) == [b \in DOMAIN next_token |-> <<next_token[b][1]>>]

\* ------------------------------------------------------------ state
VARIABLES f_pc, f_logits, f_top_k, f_top_p, f_min_keep, f_out

fvars == <<f_pc, f_logits, f_top_k, f_top_p, f_min_keep, f_out>>

VARIABLES s_pc, s_logits, s_kw, s_index_mapping, s_out

svars == <<s_pc, s_logits, s_kw, s_index_mapping, s_out>>

\* a step function called alone: p_fn is the function, p_rows the batch of
\* cond_idx or of x, p_result what it did
VARIABLES p_pc, p_fn, p_seed, p_rows, p_input_pos, p_cfg_scale, p_cfg_flag,
          p_kw, p_index_mapping, p_result

pvars == <<p_pc, p_fn, p_seed, p_rows, p_input_pos, p_cfg_scale, p_cfg_flag,
           p_kw, p_index_mapping, p_result>>

\* generate: g is its arguments; the other variables are its locals, those of
\* decode_n_tokens, the calls made on the model so far (g_calls), how often
\* each buffer index was written, and how the call ended
VARIABLES g, g_pc, g_status, g_T, g_calls, g_mask_applied, g_seq, g_confidences,
          g_seq_writes, g_conf_writes, g_input_pos, g_next_token,
          g_first_confidence, g_cur_token, g_i, g_cfg_flag, g_new_tokens,
          g_new_confidences, g_ret

gvars == <<g, g_pc, g_status, g_T, g_calls, g_mask_applied, g_seq, g_confidences,
           g_seq_writes, g_conf_writes, g_input_pos, g_next_token,
           g_first_confidence, g_cur_token, g_i, g_cfg_flag, g_new_tokens,
           g_new_confidences, g_ret>>
vars == <<fvars, svars, pvars, gvars>>

FilterIdle ==
    /\ f_pc = "idle" /\ f_logits = <<>> /\ f_top_k = 0 /\ f_top_p = <<1, 1>>
    /\ f_min_keep = 1 /\ f_out = <<>>
SampleIdle ==
    /\ s_pc = "idle" /\ s_logits = <<>> /\ s_kw = DefaultKw
    /\ s_index_mapping = NoMapping /\ s_out = <<>>
NoArgs == [model_type |-> "none", seed |-> 0, batch |-> 0, cond_len |-> 0,
           max_new_tokens |-> 0, emb_masks |-> FALSE, cfg_scale |-> 1,
           cfg_interval |-> -1, index_mapping |-> NoMapping, kw |-> DefaultKw]
GenerateLocalsInit ==
    /\ g_status = "running" /\ g_T = 0 /\ g_calls = <<>> /\ g_mask_applied = FALSE
    /\ g_seq = <<>> /\ g_confidences = <<>> /\ g_seq_writes = <<>>
    /\ g_conf_writes = <<>> /\ g_input_pos = <<>> /\ g_next_token = <<>>
    /\ g_first_confidence = <<>> /\ g_cur_token = <<>> /\ g_i = 0
    /\ g_cfg_flag = TRUE /\ g_new_tokens = <<>> /\ g_new_confidences = <<>>
    /\ g_ret = <<>>
GenerateIdle == g = NoArgs /\ g_pc = "idle" /\ GenerateLocalsInit
NoResult == [status |-> "none", warned |-> FALSE, logits |-> <<>>, out |-> <<>>]
StepIdle ==
    /\ p_pc = "idle" /\ p_fn = "none" /\ p_seed = 0 /\ p_rows = 0
    /\ p_input_pos = <<>> /\ p_cfg_scale = 1 /\ p_cfg_flag = TRUE
    /\ p_kw = DefaultKw /\ p_index_mapping = NoMapping /\ p_result = NoResult

\* ------------------------------------------------- the filter, called alone
FilterInit ==
    /\ f_logits \in Rows
    /\ f_top_k \in TopKs
    /\ f_top_p \in TopPs
    /\ f_min_keep \in 1 .. MaxKeep
    /\ f_pc = "call"
    /\ f_out = f_logits
    /\ SampleIdle /\ StepIdle /\ GenerateIdle

FilterCall ==
    /\ f_pc = "call"
    /\ f_pc' = "returned"
    /\ f_out' \in top_k_top_p_filtering(f_logits, f_top_k, f_top_p, f_min_keep)
    /\ UNCHANGED <<f_logits, f_top_k, f_top_p, f_min_keep, svars, pvars, gvars>>

FilterNext == FilterCall

SpecFilter == FilterInit /\ [][FilterNext]_vars

\* ------------------------------------------------- the sampler, called alone
\* logits of shape (batch, positions, vocabulary): a batch is a row and its
\* rotations, at one position or behind an earlier position
Rotate(row, d) == [i \in Ids |-> row[(i + d) % Vocab]]
SampleLogits ==
    {[n \in 1 .. b |-> <<Rotate(r, n - 1)>>] : r \in PeakedRows, b \in 1 .. MaxBatch}
      \cup {[n \in 1 .. b |-> <<[i \in Ids |-> i], Rotate(r, n - 1)>>] :
               r \in PeakedRows, b \in 1 .. MaxBatch}
OneRowLogits == {<<<<[i \in Ids |-> IF i = 0 THEN 1 ELSE 0]>>>>}
ShortMappings == {m \in IndexMappings : Len(m.items) <= 1}

\* every dict with one batch of one row and the default options; every batch
\* and every setting of the options with the dicts of at most one item
SampleInit ==
    /\ \/ /\ s_logits \in OneRowLogits
          /\ s_index_mapping \in IndexMappings
          /\ s_kw = DefaultKw
       \/ /\ s_logits \in SampleLogits
          /\ s_index_mapping \in ShortMappings
          /\ s_kw \in SamplingKwargs
    /\ s_pc = "call"
    /\ s_out = <<>>
    /\ FilterIdle /\ StepIdle /\ GenerateIdle

SampleCall ==
    /\ s_pc = "call"
    /\ s_pc' = "returned"
    /\ s_out' \in Sample(s_logits, s_kw, s_index_mapping)
    /\ UNCHANGED <<s_logits, s_kw, s_index_mapping, fvars, pvars, gvars>>

SampleNext == SampleCall

SpecSample == SampleInit /\ [][SampleNext]_vars

\* ------------------------------------------------- a step function, called alone
GreedyKw == [DefaultKw EXCEPT !.sample_logits = FALSE]
\* the token ids of x: row r holds the single id r - 1 (modulo the vocabulary)
StepTokens(rows) == [r \in 1 .. rows |-> <<(r - 1) % Vocab>>]

\* prefill gets the positions 0..T-1; decode_one_token gets one position, or
\* two, which its assertion rejects.  Batches of up to 2 * MaxBatch rows, the
\* largest generate passes; multinomial sampling for the smaller ones.
StepInit ==
    /\ p_fn \in {"prefill", "decode_one_token"}
    /\ p_seed \in ModelSeeds
    /\ p_rows \in 1 .. (2 * MaxBatch)
    /\ p_input_pos \in {<<0>>, <<0, 1>>}
    /\ p_cfg_scale \in CfgScales
    /\ p_cfg_flag \in BOOLEAN
    /\ p_kw \in {GreedyKw, DefaultKw}
    /\ p_kw = DefaultKw => p_rows <= 2
    /\ p_index_mapping \in {NoMapping, [is_none |-> FALSE, items |-> <<<<0, 1>>>>]}
    /\ p_pc = "call"
    /\ p_result = NoResult
    /\ FilterIdle /\ SampleIdle /\ GenerateIdle

\* the step function returns one of the results sample may give, or raises
StepOutcome(r) ==
    \/ /\ r.status = "raised"
       /\ p_result' = [status |-> "raised", warned |-> r.warned, logits |-> <<>>,
                       out |-> <<>>]
    \/ /\ r.status = "ok"
       /\ \E o \in r.outs :
             p_result' = [status |-> "returned", warned |-> r.warned,
                          logits |-> r.logits, out |-> o]

PrefillCall ==
    /\ p_pc = "call" /\ p_fn = "prefill"
    /\ p_pc' = "done"
    /\ StepOutcome(Prefill(p_seed, p_rows, p_input_pos, p_cfg_scale,
                           p_index_mapping, p_kw))
    /\ UNCHANGED <<p_fn, p_seed, p_rows, p_input_pos, p_cfg_scale, p_cfg_flag,
                   p_kw, p_index_mapping, fvars, svars, gvars>>

DecodeOneTokenCall ==
    /\ p_pc = "call" /\ p_fn = "decode_one_token"
    /\ p_pc' = "done"
    /\ StepOutcome(decode_one_token(p_seed, StepTokens(p_rows), p_input_pos,
                                    p_cfg_scale, p_cfg_flag, p_index_mapping, p_kw))
    /\ UNCHANGED <<p_fn, p_seed, p_rows, p_input_pos, p_cfg_scale, p_cfg_flag,
                   p_kw, p_index_mapping, fvars, svars, gvars>>

StepNext == PrefillCall \/ DecodeOneTokenCall

SpecStep == StepInit /\ [][StepNext]_vars

\* ------------------------------------------------- generate
GenMappings == {NoMapping, [is_none |-> FALSE, items |-> <<<<0, 1>>>>]}

\* The arguments: a class-conditional model has T = 1 whatever cond is; an
\* emb_masks, when given, has the shape lines 176-177 assert; greedy sampling
\* for every setting, multinomial sampling for a batch of one row of the first
\* model without emb_masks.
GenerateArgs ==
    {a \in [model_type : {"c2i", "t2i", "other"}, seed : ModelSeeds,
            batch : 1 .. MaxBatch, cond_len : 1 .. MaxCond,
            max_new_tokens : 1 .. MaxNew, emb_masks : BOOLEAN,
            cfg_scale : CfgScales, cfg_interval : -1 .. MaxInterval,
            index_mapping : GenMappings, kw : {GreedyKw, DefaultKw}] :
        /\ a.model_type # "t2i" => a.cond_len = 1
        /\ a.kw = DefaultKw => (a.batch = 1 /\ a.seed = 0 /\ ~a.emb_masks)}

GenerateInit ==
    /\ g \in GenerateArgs
    /\ g_pc = "setup"
    /\ GenerateLocalsInit
    /\ FilterIdle /\ SampleIdle /\ StepIdle

SetupCall(max_batch_size, max_seq_length) ==
    [op |-> "setup_caches", max_batch_size |-> max_batch_size,
     max_seq_length |-> max_seq_length, tokens |-> <<>>, has_tokens |-> FALSE,
     cond_rows |-> 0, has_cond |-> FALSE, input_pos |-> <<>>, cfg_flag |-> TRUE]
ForwardCall(tokens, has_tokens, cond_rows, has_cond, input_pos, cfg_flag) ==
    [op |-> "forward", max_batch_size |-> 0, max_seq_length |-> 0,
     tokens |-> tokens, has_tokens |-> has_tokens, cond_rows |-> cond_rows,
     has_cond |-> has_cond, input_pos |-> input_pos, cfg_flag |-> cfg_flag]

Raise ==
    /\ g_pc' = "done"
    /\ g_status' = "raised"

\* lines 149-187: the model type, setup_caches, the mask, the two buffers
GenerateSetup ==
    /\ g_pc = "setup"
    /\ IF g.model_type \notin {"c2i", "t2i"}
       THEN /\ Raise
            /\ UNCHANGED <<g_T, g_calls, g_mask_applied, g_seq, g_confidences,
                           g_seq_writes, g_conf_writes>>
       ELSE LET T == IF g.model_type = "c2i" THEN 1 ELSE g.cond_len
                T_new == T + g.max_new_tokens
            IN  /\ g_T' = T
                /\ g_calls' = <<SetupCall(MaxBatchSizeCfg(g.batch, g.cfg_scale), T_new)>>
                /\ g_mask_applied' = g.emb_masks
                /\ g_seq' = [b \in 1 .. g.batch |-> [k \in 0 .. (T_new - 1) |-> Uninit]]
                /\ g_confidences' =
                     [b \in 1 .. g.batch |-> [k \in 0 .. (T_new - 1) |-> <<Zero, Zero>>]]
                /\ g_seq_writes' = [k \in 0 .. (T_new - 1) |-> 0]
                /\ g_conf_writes' = [k \in 0 .. (T_new - 1) |-> 0]
                /\ g_pc' = "prefill"
                /\ g_status' = "running"
    /\ UNCHANGED <<g, g_input_pos, g_next_token, g_first_confidence, g_cur_token,
                   g_i, g_cfg_flag, g_new_tokens, g_new_confidences, g_ret,
                   fvars, svars, pvars>>

\* lines 189-195 and 130-131: prefill over the positions 0..T-1, its token and
\* confidence stored at buffer index T, and the entry into decode_n_tokens
GeneratePrefill ==
    /\ g_pc = "prefill"
    /\ LET input_pos == Arange(g_T)
           rows == IF g.cfg_scale > 1 THEN 2 * g.batch ELSE g.batch
           r == Prefill(g.seed, rows, input_pos, g.cfg_scale, g.index_mapping, g.kw)
       IN  /\ g_calls' = Append(g_calls, ForwardCall(<<>>, FALSE, rows, TRUE, input_pos, TRUE))
           /\ \/ /\ r.status = "raised"
                 /\ Raise
                 /\ UNCHANGED <<g_seq, g_confidences, g_seq_writes, g_conf_writes,
                                g_input_pos, g_next_token, g_first_confidence,
                                g_cur_token>>
              \/ /\ r.status = "ok"
                 /\ \E o \in r.outs :
                      LET next_token == [b \in DOMAIN o |-> <<o[b].idx>>]
                          first_confidence == [b \in DOMAIN o |-> o[b].con_pairs]
                      IN  IF /\ SetItemFits(<<Len(o), 1>>, <<g.batch, 1>>)
                             /\ SetItemFits(<<Len(o), 1, 2>>, <<g.batch, 1, 2>>)
                          THEN /\ g_next_token' = next_token
                               /\ g_first_confidence' = first_confidence
                               /\ g_seq' = [b \in 1 .. g.batch |->
                                             [g_seq[b] EXCEPT ![g_T] = next_token[b][1]]]
                               /\ g_confidences' =
                                    [b \in 1 .. g.batch |->
                                       [g_confidences[b] EXCEPT ![g_T] = first_confidence[b]]]
                               /\ g_seq_writes' = [g_seq_writes EXCEPT ![g_T] = @ + 1]
                               /\ g_conf_writes' = [g_conf_writes EXCEPT ![g_T] = @ + 1]
                               /\ g_input_pos' = <<g_T>>
                               /\ g_cur_token' = next_token
                               /\ g_pc' = "decode"
                               /\ g_status' = "running"
                          ELSE /\ Raise
                               /\ UNCHANGED <<g_seq, g_confidences, g_seq_writes,
                                              g_conf_writes, g_input_pos, g_next_token,
                                              g_first_confidence, g_cur_token>>
    /\ g_new_tokens' = <<>>
    /\ g_new_confidences' = <<>>
    /\ g_cfg_flag' = TRUE
    /\ g_i' = 0
    /\ UNCHANGED <<g, g_T, g_mask_applied, g_ret, fvars, svars, pvars>>

\* lines 132-142: one iteration of the loop of decode_n_tokens
DecodeStep ==
    /\ g_pc = "decode"
    /\ g_i < g.max_new_tokens - 1
    /\ LET cfg_flag == IF GuidanceEnds(g.cfg_interval, g_i) THEN FALSE ELSE g_cfg_flag
           r == decode_one_token(g.seed, g_cur_token, g_input_pos, g.cfg_scale,
                                 cfg_flag, g.index_mapping, g.kw)
       IN  /\ g_cfg_flag' = cfg_flag
           /\ g_calls' = Append(g_calls,
                                ForwardCall(DecodeTokens(g_cur_token, g.cfg_scale), TRUE,
                                            0, FALSE, g_input_pos, cfg_flag))
           /\ \/ /\ r.status = "raised"
                 /\ Raise
                 /\ UNCHANGED <<g_input_pos, g_new_tokens, g_new_confidences,
                                g_cur_token, g_i>>
              \/ /\ r.status = "ok"
                 /\ \E o \in r.outs :
                      LET next_token == [b \in DOMAIN o |-> <<o[b].idx>>]
                          token_confidence == [b \in DOMAIN o |-> o[b].con_pairs]
                      IN  /\ g_input_pos' = AdvancePos(g_input_pos)
                          /\ g_new_tokens' = Append(g_new_tokens, next_token)
                          /\ g_new_confidences' = Append(g_new_confidences, token_confidence)
                          /\ g_cur_token' = ViewAsColumn(next_token)
                          /\ g_i' = g_i + 1
                          /\ UNCHANGED <<g_pc, g_status>>
    /\ UNCHANGED <<g, g_T, g_mask_applied, g_seq, g_confidences, g_seq_writes,
                   g_conf_writes, g_next_token, g_first_confidence, g_ret,
                   fvars, svars, pvars>>

\* the buffers after line 196, and after the first n iterations of the loop
\* of lines 198-199
SeqFilled ==
    [b \in 1 .. g.batch |->
        [k \in DOMAIN g_seq[b] |->
            IF k > g_T THEN g_new_tokens[k - g_T][b][1] ELSE g_seq[b][k]]]
SeqWritesFilled ==
    [k \in DOMAIN g_seq_writes |-> IF k > g_T THEN g_seq_writes[k] + 1 ELSE g_seq_writes[k]]
RECURSIVE ConfFilled(_)
ConfFilled(n) ==
    IF n = 0 THEN g_confidences
    ELSE LET before == ConfFilled(n - 1)
         IN  [b \in 1 .. g.batch |->
                [before[b] EXCEPT ![ConfIndex(g_T, n - 1)] = g_new_confidences[n][b]]]
RECURSIVE ConfWritesFilled(_)
ConfWritesFilled(n) ==
    IF n = 0 THEN g_conf_writes
    ELSE [ConfWritesFilled(n - 1) EXCEPT ![ConfIndex(g_T, n - 1)] = @ + 1]

\* lines 196-200, after the loop of decode_n_tokens ended: torch.cat raises on
\* an empty list; the tokens are stored behind index T, then the confidences
\* one by one; the buffers are returned from index T on
GenerateAssemble ==
    /\ g_pc = "decode"
    /\ g_i >= g.max_new_tokens - 1
    /\ g_pc' = "done"
    /\ IF g_new_tokens = <<>>
       THEN /\ g_status' = "raised"
            /\ UNCHANGED <<g_seq, g_confidences, g_seq_writes, g_conf_writes, g_ret>>
       ELSE IF ~SetItemFits(<<g.batch, Len(g_new_tokens)>>,
                            <<g.batch, g.max_new_tokens - 1>>)
       THEN /\ g_status' = "raised"
            /\ UNCHANGED <<g_seq, g_confidences, g_seq_writes, g_conf_writes, g_ret>>
       ELSE /\ g_seq' = SeqFilled
            /\ g_seq_writes' = SeqWritesFilled
            /\ IF SetItemFits(<<g.batch, 1, 2>>, <<g.batch, 2>>)
               THEN /\ g_confidences' = ConfFilled(Len(g_new_confidences))
                    /\ g_conf_writes' = ConfWritesFilled(Len(g_new_confidences))
                    /\ g_status' = "returned"
                    /\ g_ret' =
                         [seq |-> [b \in 1 .. g.batch |->
                                     [n \in 1 .. g.max_new_tokens |->
                                        g_seq'[b][g_T + n - 1]]],
                          confidences |->
                                  [b \in 1 .. g.batch |->
                                     [n \in 1 .. g.max_new_tokens |->
                                        g_confidences'[b][g_T + n - 1]]]]
               ELSE /\ g_status' = "raised"
                    /\ UNCHANGED <<g_confidences, g_conf_writes, g_ret>>
    /\ UNCHANGED <<g, g_T, g_calls, g_mask_applied, g_input_pos, g_next_token,
                   g_first_confidence, g_cur_token, g_i, g_cfg_flag, g_new_tokens,
                   g_new_confidences, fvars, svars, pvars>>

Next == GenerateSetup \/ GeneratePrefill \/ DecodeStep \/ GenerateAssemble

Spec == GenerateInit /\ [][Next]_vars

\* ------------------------------------------------- properties of the filter
Kept(row) == {i \in Ids : row[i] # NegInf}
FilterReturned == f_pc = "returned"
TopPEnabled == f_top_p[1] < f_top_p[2]
\* top_k after the clamp of line 28
ClampedTopK == Min2(Max2(f_top_k, f_min_keep), Vocab)
\* v is the k-th largest value of row, stated by counting
IsKthLargest(row, k, v) ==
    /\ \E i \in Ids : row[i] = v
    /\ Cardinality({i \in Ids : row[i] > v}) < k
    /\ Cardinality({i \in Ids : row[i] >= v}) >= k

\* C5 as stated: with top_k = k > 0 and top_p disabled at least k entries
\* survive the filter, whatever k is.
C5_AsStated ==
    (FilterReturned /\ f_top_k > 0 /\ ~TopPEnabled)
        => Cardinality(Kept(f_out)) >= f_top_k

\* C5 amended: with top_k > 0 and top_p disabled, and k the top_k clamped to
\* [min_keep, vocabulary size], at least k entries survive, exactly k when no
\* other entry ties with the k-th largest logit; the survivors are the entries
\* not below the k-th largest logit, and they keep their value.
C5_TopKCount ==
    (FilterReturned /\ f_top_k > 0 /\ ~TopPEnabled)
        => \E v \in 0 .. MaxLogit :
              /\ IsKthLargest(f_logits, ClampedTopK, v)
              /\ Kept(f_out) = {i \in Ids : f_logits[i] >= v}
              /\ \A i \in Kept(f_out) : f_out[i] = f_logits[i]
              /\ Cardinality(Kept(f_out)) >= ClampedTopK
              /\ (Cardinality({i \in Ids : f_logits[i] = v}) = 1
                    => Cardinality(Kept(f_out)) = ClampedTopK)

\* C5 witnesses: a tie at the threshold keeps more than k entries, and a top_k
\* above the vocabulary size is clamped
C5_Witness ==
    /\ FilterReturned /\ ~TopPEnabled
    /\ f_top_k = 2 /\ f_min_keep = 1
    /\ Cardinality(Kept(f_out)) = 3
    /\ \E i, j \in Ids : f_logits[i] > f_logits[j]

\* the row the top-p stage works on
AfterTopK == TopKStage(f_logits, f_top_k, f_min_keep)
KeptMass == SumW(AfterTopK, Kept(f_out))
\* the weight of the lowest-ranked surviving entry
LowestKeptWeight ==
    LET i == CHOOSE x \in Kept(f_out) :
                \A y \in Kept(f_out) : AfterTopK[x] <= AfterTopK[y]
    IN  Weights(AfterTopK)[i]
IsSortedPrefix ==
    /\ Kept(f_out) # {}
    /\ \A i \in Kept(f_out) : f_out[i] = AfterTopK[i]
    /\ \A i \in Kept(f_out), j \in Ids \ Kept(f_out) : AfterTopK[i] >= AfterTopK[j]

SampleReturned == s_pc = "returned"
\* the positions of the items whose value is id
ItemsWithValue(items, id) == {n \in DOMAIN items : items[n][2] = id}
FirstItemWithValue(items, id) ==
    CHOOSE n \in ItemsWithValue(items, id) : \A m \in ItemsWithValue(items, id) : n <= m
\* the confidence pair claimed for a row sampled as id from the softmax of row
ClaimedPaired(row, id, M) ==
    IF M.is_none THEN Zero
    ELSE IF \E n \in DOMAIN M.items : M.items[n][1] = id
         THEN LET n == CHOOSE x \in DOMAIN M.items : M.items[x][1] = id
              IN  Softmax(row, M.items[n][2])
         ELSE IF ItemsWithValue(M.items, id) # {}
              THEN Softmax(row, M.items[FirstItemWithValue(M.items, id)][1])
              ELSE Zero

\* C7: for every row, the distribution is the softmax of the logits of the
\* last position over the temperature, less the filtered entries; the primary confidence is the probability of the
\* sampled id s; the paired confidence is the probability of M[s] when s is a
\* key of the index mapping M, else the probability of the key of the first
\* item (in insertion order) whose value is s, else 0; and 0 without a mapping.
C7_PairedConfidence ==
    SampleReturned =>
        \A b \in DOMAIN s_out :
            /\ LET last == DivTemperature(s_logits[b][Len(s_logits[b])],
                                          s_kw.temperature)
               IN  /\ \A i \in Ids : s_out[b].probs[i] \in {last[i], NegInf}
                   /\ (s_kw = DefaultKw => s_out[b].probs = last)
            /\ s_out[b].con_pairs[1] = Softmax(s_out[b].probs, s_out[b].idx)
            /\ s_out[b].con_pairs[2] =
                  ClaimedPaired(s_out[b].probs, s_out[b].idx, s_index_mapping)

\* C7 witness: the sampled id is no key and is the value of two items whose
\* keys have different probabilities; the first item's key is used
C7_Witness ==
    /\ SampleReturned
    /\ ~s_index_mapping.is_none
    /\ LET o == s_out[1]
           items == s_index_mapping.items
       IN  /\ Len(items) = 2
           /\ items[1][2] = o.idx /\ items[2][2] = o.idx
           /\ items[1][1] # o.idx /\ items[2][1] # o.idx
           /\ o.con_pairs[2] = Softmax(o.probs, items[1][1])
           /\ o.con_pairs[2] # Softmax(o.probs, items[2][1])

\* ------------------------------------------------- properties of the steps
\* the logits the model returned to the step function that was called
StepRawLogits ==
    IF p_fn = "prefill" THEN ModelForward(p_seed, p_rows, <<>>, p_input_pos)
    ELSE LET tokens == DecodeTokens(StepTokens(p_rows), p_cfg_scale)
         IN  ModelForward(p_seed, Len(tokens), tokens, p_input_pos)
\* the call reached the guidance step (decode_one_token's assertion passed)
ReachedGuidance ==
    /\ p_pc = "done" /\ p_cfg_scale > 1
    /\ (p_fn = "decode_one_token" => Len(p_input_pos) = 1)

\* C8 as stated: with guidance_scale > 1 the guidance step never aborts the
\* run, whatever the batch size b of the model's logits is: an even b >= 2 is
\* split in halves and blended (in Decode-One, when the guidance flag is on),
\* and for b = 1 or b odd a warning is emitted and the raw logits are used.
C8_AsStated ==
    ReachedGuidance =>
        LET raw == StepRawLogits
            b == Len(raw)
        IN  /\ p_result.status = "returned"
            /\ (b % 2 = 0 /\ (p_fn = "prefill" \/ p_cfg_flag))
                  => /\ ~p_result.warned
                     /\ p_result.logits =
                           [r \in 1 .. (b \div 2) |->
                              Blend(raw[r], raw[(b \div 2) + r], p_cfg_scale)]
            /\ (b % 2 = 1) => (p_result.warned /\ p_result.logits = raw)

\* ------------------------------------------------- properties of generate
Recognized == g.model_type \in {"c2i", "t2i"}
Done == g_pc = "done"
\* the batch the model is called with
CallRows == IF g.cfg_scale > 1 THEN 2 * g.batch ELSE g.batch

\* C1 as stated: with a recognized model type generate returns normally, with
\* a token buffer of shape (batch, N) and a confidence buffer of shape
\* (batch, N, 2), for every max_new_tokens = N > 0 and every batch size.
C1_AsStated ==
    (Done /\ Recognized)
        => /\ g_status = "returned"
           /\ Len(g_ret.seq) = g.batch
           /\ Len(g_ret.confidences) = g.batch
           /\ \A b \in 1 .. g.batch :
                 /\ Len(g_ret.seq[b]) = g.max_new_tokens
                 /\ Len(g_ret.confidences[b]) = g.max_new_tokens
                 /\ \A n \in 1 .. g.max_new_tokens : Len(g_ret.confidences[b][n]) = 2

\* C2: the guidance flag passed to decode step k (the call k + 3 on the model)
\* is true exactly when cfg_interval is -1 or k <= cfg_interval; it is true at
\* step 0, and once false it is false at every later step.
C2_GuidanceLatch ==
    \A n \in 3 .. Len(g_calls) :
        /\ g_calls[n].cfg_flag = (g.cfg_interval > -1 => n - 3 <= g.cfg_interval)
        /\ (n = 3 => g_calls[n].cfg_flag)
        /\ \A m \in 3 .. n : ~g_calls[m].cfg_flag => ~g_calls[n].cfg_flag

\* C2 witness: three decode steps, the flag true, then false twice
C2_Witness ==
    /\ Len(g_calls) = 5
    /\ g_calls[3].cfg_flag /\ ~g_calls[4].cfg_flag /\ ~g_calls[5].cfg_flag

\* C3: the prefill call gets the positions 0..T-1, decode step k gets the
\* single position T + k, and the cursor stands at T + i before decode step i.
C3_PositionCursor ==
    /\ Len(g_calls) >= 2 =>
          /\ Len(g_calls[2].input_pos) = g_T
          /\ \A n \in 1 .. g_T : g_calls[2].input_pos[n] = n - 1
    /\ \A n \in 3 .. Len(g_calls) : g_calls[n].input_pos = <<g_T + (n - 3)>>
    /\ g_pc = "decode" => g_input_pos = <<g_T + g_i>>

\* C3 witness: a conditioning of two positions and three decode steps
C3_Witness ==
    /\ Done /\ g_T = 2 /\ Len(g_calls) = 5
    /\ g_calls[5].input_pos = <<4>>

\* C4: the calls on the model are one setup_caches, sized for the doubled (if
\* cfg_scale > 1) batch and T + max_new_tokens, then one forward with
\* conditioning and no tokens, then forwards with one token per row and no
\* conditioning: max_new_tokens - 1 of them when generate ends.
C4_CallOrder ==
    /\ ~Recognized => g_calls = <<>>
    /\ Len(g_calls) <= g.max_new_tokens + 1
    /\ (Done /\ Recognized) => Len(g_calls) = g.max_new_tokens + 1
    /\ g_pc \in {"prefill", "decode"} => Len(g_calls) >= 1
    /\ \A n \in DOMAIN g_calls :
          /\ (n = 1) <=> (g_calls[n].op = "setup_caches")
          /\ (n > 1) <=> (g_calls[n].op = "forward")
          /\ n = 1 => /\ g_calls[n].max_batch_size = CallRows
                      /\ g_calls[n].max_seq_length = g_T + g.max_new_tokens
          /\ n = 2 => /\ g_calls[n].has_cond /\ ~g_calls[n].has_tokens
                      /\ g_calls[n].cond_rows = CallRows
          /\ n > 2 => /\ g_calls[n].has_tokens /\ ~g_calls[n].has_cond
                      /\ Len(g_calls[n].tokens) = CallRows
                      /\ \A r \in DOMAIN g_calls[n].tokens : Len(g_calls[n].tokens[r]) = 1

\* C4 witness: a guided generation that ended after three decode calls
C4_Witness ==
    /\ Done /\ g.cfg_scale > 1 /\ g.max_new_tokens = 4
    /\ Len(g_calls) = 5 /\ g_calls[1].max_batch_size = 2 * g.batch

\* C9: in the returned buffers index 0 holds the token and the confidence of
\* prefill and index i + 1 those of decode step i; the token fed to the model
\* at decode step i is the one returned at index i; every index of the
\* generated region was written once, no other index was written, and no
\* index is ever written twice.
C9_Lockstep ==
    /\ \A k \in DOMAIN g_seq_writes : g_seq_writes[k] <= 1 /\ g_conf_writes[k] <= 1
    /\ g_status = "returned" =>
          /\ \A k \in DOMAIN g_seq_writes :
                /\ g_seq_writes[k] = (IF k >= g_T THEN 1 ELSE 0)
                /\ g_conf_writes[k] = (IF k >= g_T THEN 1 ELSE 0)
          /\ \A b \in 1 .. g.batch :
                /\ g_ret.seq[b][1] = g_next_token[b][1]
                /\ g_ret.confidences[b][1] = g_first_confidence[b]
                /\ \A i \in 0 .. (g.max_new_tokens - 2) :
                      /\ g_ret.seq[b][i + 2] = g_new_tokens[i + 1][b][1]
                      /\ g_ret.confidences[b][i + 2] = g_new_confidences[i + 1][b]
          /\ \A i \in 0 .. (g.max_new_tokens - 2) :
                \A r \in DOMAIN g_calls[i + 3].tokens :
                    g_calls[i + 3].tokens[r] = <<g_ret.seq[((r - 1) % g.batch) + 1][i + 1]>>

\* C9 witness: a returned generation of four tokens that are not all equal,
\* under guidance
C9_Witness ==
    /\ g_status = "returned" /\ g.max_new_tokens = 4 /\ g.cfg_scale > 1
    /\ g_ret.seq[1][1] # g_ret.seq[1][2] /\ g_ret.seq[1][2] # g_ret.seq[1][3]
    /\ g_ret.confidences[1][1] # g_ret.confidences[1][2]

\* C10: whatever top_k >= 0, top_p (also <= 0) and min_keep >= 1 are, the
\* filter leaves at least one entry, and an entry holding the row's maximum
\* logit is among the survivors.
C10_MaxSurvives ==
    FilterReturned
        => /\ Kept(f_out) # {}
           /\ \E i \in Kept(f_out) :
                 /\ f_out[i] = f_logits[i]
                 /\ \A j \in Ids : f_logits[j] <= f_logits[i]

\* C10 witness: top-k and top-p both active with top_p <= 0, and all but one
\* entry excluded although another entry holds the maximum too
C10_Witness ==
    /\ FilterReturned /\ f_top_k > 0 /\ f_top_p[1] <= 0
    /\ Cardinality(Kept(f_out)) = 1
    /\ \E i \in Ids \ Kept(f_out) : \A j \in Ids : f_logits[j] <= f_logits[i]

====
